---------------------------- MODULE Spec2Model ----------------------------
(***************************************************************************)
(* Feed ingestion pipeline of rss-summarizer: ArticleFetcher (fetchAllFeeds,*)
(* fetchFeedArticles, fetchFeedById), Article.bulkCreateSafeWithDupeCheck   *)
(* and the articles/feeds tables they write.                                *)
(*                                                                          *)
(* A JavaScript string is a sequence of tokens: the token " " is one        *)
(* whitespace character, every other token is a run of non-whitespace       *)
(* characters.  <<>> is the empty string (and stands for undefined, which   *)
(* is falsy like '').                                                       *)
(***************************************************************************)
EXTENDS Naturals, Sequences, FiniteSets, Bags

\* ------------------------------------------------------------ bounds
\* largest errorCount a feed row reaches (failures are disabled beyond it)
MaxErr == 2
\* last value of the wall clock
MaxNow == 1
\* number of fetchAll / fetchFeedById calls started in one behaviour
MaxRuns == 2
\* number of store failures injected in one behaviour
MaxFaults == 1
\* number of ArticleScheduler.init() calls in one behaviour
MaxInits == 2
\* last second of the clock a fallback parse runs against
MaxClock == 5

\* ------------------------------------------------------------ data
Feeds == {1, 2}
Calls == {1, 2}

Blank == " "
Empty == << >>
Str(w) == << w >>

\* item.pubDate absent
NoDate == 0

\* 'Untitled Article'
UntitledArticle == Str("Untitled Article")

\* a || b on strings
Or(a, b) == IF a # Empty THEN a ELSE b

RECURSIVE TrimLeft(_)
TrimLeft(s) == IF s # Empty /\ Head(s) = Blank THEN TrimLeft(Tail(s)) ELSE s

RECURSIVE TrimRight(_)
TrimRight(s) ==
  IF s # Empty /\ s[Len(s)] = Blank THEN TrimRight(SubSeq(s, 1, Len(s) - 1)) ELSE s

\* String.prototype.trim
Trim(s) == TrimRight(TrimLeft(s))

\* tokens that are well-formed absolute URLs
UrlWords == {"http://a/1", "http://a/2", "http://a/3", "http://a/4", "http://a/5"}

\* validate: { isUrl: true }
IsUrl(s) == Len(s) = 1 /\ s[1] \in UrlWords


\* ------------------------------------------------------------ remote items
\* one item as a parser hands it over (fields the pipeline reads)
Entry(t, l, g, c, d) ==
  [title |-> t, link |-> l, guid |-> g, content |-> c, contentSnippet |-> Empty,
   summary |-> Empty, description |-> Empty, pubDate |-> d]

U1 == Str("http://a/1")
U2 == Str("http://a/2")
U3 == Str("http://a/3")
U4 == Str("http://a/4")
U5 == Str("http://a/5")
Body == Str("text")

e1 == Entry(Str("T1"), U1, Str("G1"), Body, 1)
\* same link as e1
eLink == Entry(Str("T3"), U1, Str("G3"), Body, 1)
\* same guid as e1
eGuid == Entry(Str("T4"), U3, Str("G1"), Body, 1)
\* neither link nor guid
eNoLink == Entry(Str("T6"), Empty, Empty, Body, 1)
\* whitespace link
eBlankLink == Entry(Str("T7"), <<Blank>>, Str("G7"), Body, 1)
\* whitespace content, only in the description
eBlankBody ==
  [Entry(Str("T8"), U3, Str("G8"), Empty, 1) EXCEPT !.description = <<Blank, Blank>>]

\* parseWithFeedParser: how the fallback parser hands an item over
FallbackItem(item) ==
  [title |-> item.title,
   link |-> Or(item.link, item.guid),
   pubDate |-> item.pubDate,
   content |-> Or(item.description, item.summary),
   contentSnippet |-> item.summary,
   summary |-> Empty,
   description |-> Empty,
   guid |-> Or(item.guid, item.link)]

\* items as the fallback parser reads them, their text in description or
\* summary.  The title of e1, and a guid that is a URL in place of the link
rTitle == [Entry(Str("T1"), Empty, U4, Empty, 1) EXCEPT !.description = Body]
\* no title, no guid, no date
rBare == [Entry(Empty, U5, Empty, Empty, NoDate) EXCEPT !.summary = Body]
\* a second item without a title
rTwin == [Entry(Empty, U2, Empty, Empty, NoDate) EXCEPT !.summary = Body]
\* no link: the guid, which is no URL, stands in for it
rBadUrl == [Entry(Str("T10"), Empty, Str("tag:10"), Empty, 1) EXCEPT !.description = Body]

\* what a successful parse of a feed URL can return in parsedFeed.items:
\* the primary parser's items, or the fallback parser's
FeedContents ==
  { << >>,
    <<e1, eBlankBody, eLink, eGuid>>,
    <<FallbackItem(rTitle), FallbackItem(rBare), FallbackItem(rBadUrl),
      FallbackItem(rTwin)>>,
    <<eNoLink, eBlankLink, eBlankBody>> }

\* the parse results tried where calls overlap, the store fails or feeds
\* are switched on and off
FewContents ==
  { << >>,
    <<e1, eBlankBody, eLink, eGuid>>,
    <<FallbackItem(rTitle), FallbackItem(rBare), FallbackItem(rBadUrl)>> }

\* ------------------------------------------------------------ fetchFeedArticles: map and filter
\* parsedFeed.items.map(item => ({...})) at clock value t
Normalize(item, t) ==
  [title |-> Or(item.title, UntitledArticle),
   link |-> Or(item.link, Or(item.guid, Empty)),
   pubDate |-> IF item.pubDate # NoDate THEN item.pubDate ELSE t,
   rawContent |-> Or(item.content, Or(item.contentSnippet,
                    Or(item.summary, Or(item.description, Empty)))),
   guid |-> Or(item.guid, Or(item.link, Empty))]

\* the filter without trim(): presence of the two fields only
IsValidUntrimmed(a) == a.link # Empty /\ a.rawContent # Empty

\* hasLink && hasDescription
IsValid(a) ==
  /\ a.link # Empty /\ Trim(a.link) # Empty
  /\ a.rawContent # Empty /\ Trim(a.rawContent) # Empty

RECURSIVE Filter(_)
Filter(as) ==
  IF as = << >> THEN << >>
  ELSE IF IsValid(Head(as)) THEN <<Head(as)>> \o Filter(Tail(as))
       ELSE Filter(Tail(as))

\* validArticles of one parse result
ValidArticles(items, t) == Filter([k \in 1..Len(items) |-> Normalize(items[k], t)])

\* ------------------------------------------------------------ articles table
\* the row Article.create builds from articleData and feedId
Row(a, f) ==
  [feedId |-> f, title |-> a.title, link |-> a.link, guid |-> a.guid,
   rawContent |-> a.rawContent, pubDate |-> a.pubDate]

\* model validation of Article: title len [1,500], link isUrl, guid len [1,500]
Validates(r) == r.title # Empty /\ IsUrl(r.link) /\ r.guid # Empty

\* a table without the index on link
NoLinkIndex(tbl, r) == TRUE

\* unique index articles_link_unique
LinkFree(tbl, r) == \A x \in BagToSet(tbl) : x.link # r.link

\* a table without the index on (feedId, guid)
NoFeedGuidIndex(tbl, r) == TRUE

\* unique index articles_feed_guid_unique
FeedGuidFree(tbl, r) ==
  \A x \in BagToSet(tbl) : ~(x.feedId = r.feedId /\ x.guid = r.guid)

\* whether INSERT of r into tbl succeeds
Accepts(tbl, r) == Validates(r) /\ LinkFree(tbl, r) /\ FeedGuidFree(tbl, r)

\* this.findAll({ where: { feedId } })
OfFeed(tbl, f) == {x \in BagToSet(tbl) : x.feedId = f}

\* new Set(existingArticles.map(a => a.<field>).filter(Boolean))
ExistingLinks(tbl, f) == {x.link : x \in OfFeed(tbl, f)} \ {Empty}
ExistingGuids(tbl, f) == {x.guid : x \in OfFeed(tbl, f)} \ {Empty}
ExistingTitles(tbl, f) == {x.title : x \in OfFeed(tbl, f)} \ {Empty}

\* a check of link and guid alone
DuplicateReasonNoTitle(a, links, guids, titles) ==
  IF a.link # Empty /\ a.link \in links THEN "duplicate link"
  ELSE IF a.guid # Empty /\ a.guid \in guids THEN "duplicate guid"
  ELSE ""

\* the three-tier check of one candidate against the lookup sets
DuplicateReason(a, links, guids, titles) ==
  IF a.link # Empty /\ a.link \in links THEN "duplicate link"
  ELSE IF a.guid # Empty /\ a.guid \in guids THEN "duplicate guid"
  ELSE IF a.title # Empty /\ a.title \in titles THEN "duplicate title"
  ELSE ""



\* ------------------------------------------------------------ state
VARIABLES
  feeds,     \* feeds table: feed id -> [isActive, errorCount, lastFetched]
  articles,  \* articles table: a bag of rows
  now,       \* the wall clock, read by new Date()
  calls,     \* the fetchAllFeeds / fetchFeedById calls in flight, by slot
  last,      \* history: the fetchFeedArticles call that completed last
  started,   \* history: number of calls started
  faults,    \* history: number of store failures injected
  sched,     \* ArticleScheduler: configuration, scheduledJobs, the cron jobs
  fallback,  \* parseWithFeedParser: one call's promise, requests and timer
  reg        \* FeedService.createFeed: the call in progress, the feeds by url

vars == <<feeds, articles, now, calls, last, started, faults, sched, fallback, reg>>

\* a call slot with no call in it.  Program state: kind, pc, arg, loaded (the
\* Feed instances of the run), k, arts (validArticles), i, links, guids,
\* titles, duplicateReason, newArticles, n (newArticles.length), totalFetched, totalErrors, result, value,
\* feedsProcessed, by (who awaits the call: a caller, a trigger, a cron
\* job), and of cleanOldArticles days, cap, cutoffNow (the new Date() that
\* cutoffDate starts from), old (oldArticles), excess (excessArticles).  The other fields are history of the call (armed: the
\* scheduler was running when its job fired; job: the cron job whose callback
\* made the call; caught: the cron job whose callback last used the slot and
\* ended by catching an error; table: the articles when
\* cleanOldArticles began), of the current
\* fetchFeedArticles call (was, made, skipped, conflicts, refused, fault,
\* again, items, path), of the run (active) and of its completed
\* fetchFeedArticles calls (log).
IdleCall ==
  [kind |-> "none", pc |-> "idle", arg |-> 0,
   loaded |-> << >>, k |-> 0,
   items |-> << >>, arts |-> << >>, i |-> 0,
   links |-> {}, guids |-> {}, titles |-> {}, n |-> 0,
   duplicateReason |-> "", newArticles |-> << >>,
   totalFetched |-> 0, totalErrors |-> 0, feedsProcessed |-> 0,
   result |-> "none", value |-> 0,
   was |-> 0, made |-> 0, skipped |-> 0, conflicts |-> 0, refused |-> 0,
   fault |-> FALSE, again |-> FALSE, path |-> "", active |-> {}, log |-> << >>,
   by |-> "caller", armed |-> FALSE, job |-> 0, caught |-> 0,
   days |-> 0, cap |-> 0, cutoffNow |-> 0, old |-> {}, excess |-> {},
   table |-> << >>]

\* the Feed instance a query hands over
Instance(f) == [id |-> f, errorCount |-> feeds[f].errorCount]

\* Feed.findAll() without the where clause
AllLists ==
  {s \in [1..Cardinality(Feeds) -> Feeds] :
     \A x, y \in 1..Cardinality(Feeds) : x # y => s[x] # s[y]}

\* the orders in which Feed.findAll({ where: { isActive: true } }) can list rows
ActiveLists ==
  LET act == {f \in Feeds : feeds[f].isActive}
  IN  {s \in [1..Cardinality(act) -> act] :
         \A x, y \in 1..Cardinality(act) : x # y => s[x] # s[y]}

\* entering fetchFeedArticles(feed) with feed = cr.loaded[j]
Enter(cr, j) ==
  [cr EXCEPT !.pc = "parse", !.k = j,
             !.items = << >>, !.arts = << >>, !.i = 0,
             !.links = {}, !.guids = {}, !.titles = {}, !.n = 0,
             !.duplicateReason = "", !.newArticles = << >>,
             !.was = cr.loaded[j].errorCount, !.made = 0, !.skipped = 0,
             !.conflicts = 0, !.refused = 0, !.fault = FALSE,
             !.again = FALSE, !.path = ""]

\* history: what one fetchFeedArticles call did
Outcome(cr, ok, ret, path, before, after) ==
  [feed |-> cr.loaded[cr.k].id, ok |-> ok, ret |-> ret, path |-> path,
   was |-> cr.was, made |-> cr.made, skipped |-> cr.skipped,
   conflicts |-> cr.conflicts, refused |-> cr.refused,
   fault |-> cr.fault, again |-> cr.again,
   size |-> Len(cr.items), cands |-> Len(cr.arts),
   before |-> before, after |-> after, at |-> now]

\* the loop of fetchAllFeeds without its try/catch: an error ends the run
LeaveUncaught(cr, ok, ret, path, before, after) ==
  LET lg == [cr EXCEPT !.log = Append(@, Outcome(cr, ok, ret, path, before, after)),
                       !.path = path]
  IN  IF ok /\ cr.kind = "all" /\ cr.k < Len(cr.loaded)
      THEN Enter([lg EXCEPT !.totalFetched = @ + ret], cr.k + 1)
      ELSE [lg EXCEPT !.pc = "done",
                      !.result = IF ok THEN "returned" ELSE "threw",
                      !.totalFetched = @ + ret,
                      !.feedsProcessed = IF cr.kind = "all" THEN Len(cr.loaded) ELSE 0,
                      !.value = IF ok /\ cr.kind = "one" THEN ret ELSE 0]

\* fetchFeedArticles returns ret (ok) or throws (~ok); the caller goes on:
\* the loop of fetchAllFeeds counts it and takes the next feed, fetchFeedById
\* hands the result or the error to its own caller
Leave(cr, ok, ret, path, before, after) ==
  LET lg == [cr EXCEPT !.log = Append(@, Outcome(cr, ok, ret, path, before, after)),
                       !.path = path]
  IN  IF cr.kind = "all"
      THEN LET t == [lg EXCEPT !.totalFetched = IF ok THEN @ + ret ELSE @,
                               !.totalErrors = IF ok THEN @ ELSE @ + 1]
           IN  IF cr.k < Len(cr.loaded)
               THEN Enter(t, cr.k + 1)
               ELSE [t EXCEPT !.pc = "done", !.result = "returned",
                              !.feedsProcessed = Len(cr.loaded)]
      ELSE [lg EXCEPT !.pc = "done",
                      !.result = IF ok THEN "returned" ELSE "threw",
                      !.value = IF ok THEN ret ELSE 0]

\* history: no successful fetch to compare the next one with
NoLast == [feed |-> 0, items |-> << >>, clean |-> FALSE]

\* history: the fetch that completed last, if it succeeded with every store
\* operation done, for comparing two fetches in a row
Remember(cr, ok) ==
  IF ok /\ ~cr.fault
  THEN [feed |-> cr.loaded[cr.k].id, items |-> cr.items, clean |-> TRUE]
  ELSE NoLast

\* the names under which init() stores its jobs
JobNames == {"articleFetch", "articleCleanup"}

\* ArticleScheduler before init(), ENABLE_ARTICLE_SCHEDULER and
\* ARTICLE_RETENTION_DAYS not set.  scheduledJobs maps a name to the index
\* of its job in jobs (0: no entry); running and initRan are history
NoScheduler ==
  [enabled |-> FALSE, retention |-> 0,
   scheduledJobs |-> [n \in JobNames |-> 0], jobs |-> << >>,
   running |-> FALSE, initRan |-> FALSE]

\* the URLs a user registers
RegUrls == {"http://x/feed", "http://y/feed"}

\* no feed row for a url
NoRow == [stored |-> FALSE, title |-> Empty, description |-> Empty]

\* FeedService.createFeed before it is called: no feed registered.  pc, url,
\* title (feedData.title), validation (what validateFeedUrl returned) and
\* rows (the feeds table by url) are program state; outcome, hook (what
\* Feed.validateFeedUrl returned to the beforeCreate hook) and threw (the hook
\* reached its throw) are history of the call, as is fetched (how the fetch
\* of the new feed ended)
NoRegistration ==
  [pc |-> "idle", url |-> "", title |-> Empty,
   validation |-> [valid |-> FALSE, step |-> "none", warning |-> Empty,
                   error |-> Empty, hasInfo |-> FALSE, title |-> Empty,
                   description |-> Empty, primary |-> Empty, fallback |-> Empty],
   hook |-> [valid |-> FALSE, error |-> Empty, title |-> Empty,
             description |-> Empty, ran |-> FALSE],
   threw |-> FALSE, outcome |-> "none", fetched |-> "none",
   rows |-> [u \in RegUrls |-> NoRow]]

\* parseWithFeedParser before it is called: the promise (pc), currentAgent,
\* the axios requests issued so far, the setTimeout deadline, the time in
\* seconds, and the error the promise was rejected with
NoFallback ==
  [pc |-> "idle", currentAgent |-> 0, requests |-> << >>, due |-> 0,
   clock |-> 0, error |-> ""]

\* the feeds as FeedService.createFeed registers them, the store reliable
Init ==
  /\ feeds = [f \in Feeds |-> [isActive |-> TRUE, errorCount |-> 0, lastFetched |-> 0]]
  /\ articles = EmptyBag
  /\ now = 0
  /\ calls = [c \in Calls |-> IdleCall]
  /\ last = NoLast
  /\ started = 0
  /\ faults = MaxFaults
  /\ sched = NoScheduler
  /\ fallback = NoFallback
  /\ reg = NoRegistration

\* ------------------------------------------------------------ environment
\* time passes
Tick ==
  /\ now < MaxNow
  /\ now' = now + 1
  /\ UNCHANGED <<feeds, articles, calls, last, started, faults, sched, fallback, reg>>

\* FeedService.updateFeed(feedId, { isActive: b }) by an administrator
SetActive(f, b) ==
  /\ feeds[f].isActive # b
  /\ feeds' = [feeds EXCEPT ![f].isActive = b]
  /\ UNCHANGED <<articles, now, calls, last, started, faults, sched, fallback, reg>>

\* a store operation fails (the database cannot be reached)
Failing(fault) == fault => faults < MaxFaults

\* ------------------------------------------------------------ fetchAllFeeds / fetchFeedById
StartAll(c) ==
  /\ calls[c].pc = "idle"
  /\ started < MaxRuns
  /\ started' = started + 1
  /\ calls' = [calls EXCEPT ![c] = [IdleCall EXCEPT !.kind = "all", !.pc = "list"]]
  /\ UNCHANGED <<feeds, articles, now, last, faults, sched, fallback, reg>>

StartOne(c, f) ==
  /\ calls[c].pc = "idle"
  /\ started < MaxRuns
  /\ started' = started + 1
  /\ calls' = [calls EXCEPT ![c] = [IdleCall EXCEPT !.kind = "one", !.pc = "find", !.arg = f]]
  /\ UNCHANGED <<feeds, articles, now, last, faults, sched, fallback, reg>>

\* await Feed.findAll({ where: { isActive: true } }); an empty list ends the run
ListFeeds(c) ==
  /\ calls[c].pc = "list"
  /\ \E fault \in BOOLEAN :
       /\ Failing(fault)
       /\ faults' = IF fault THEN faults + 1 ELSE faults
       /\ IF fault
          THEN calls' = [calls EXCEPT ![c].pc = "done", ![c].result = "threw"]
          ELSE \E order \in ActiveLists :
                 LET ld == [calls[c] EXCEPT
                              !.loaded = [j \in 1..Len(order) |-> Instance(order[j])],
                              !.active = {f \in Feeds : feeds[f].isActive}]
                 IN  calls' = [calls EXCEPT ![c] =
                       IF Len(order) = 0
                       THEN [ld EXCEPT !.pc = "done", !.result = "returned"]
                       ELSE Enter(ld, 1)]
  /\ UNCHANGED <<feeds, articles, now, last, started, sched, fallback, reg>>

\* await Feed.findByPk(feedId)
FindFeed(c) ==
  /\ calls[c].pc = "find"
  /\ \E fault \in BOOLEAN :
       /\ Failing(fault)
       /\ faults' = IF fault THEN faults + 1 ELSE faults
       /\ calls' = [calls EXCEPT ![c] =
            IF fault
            THEN [calls[c] EXCEPT !.pc = "done", !.result = "threw"]
            ELSE Enter([calls[c] EXCEPT !.loaded = <<Instance(calls[c].arg)>>], 1)]
  /\ UNCHANGED <<feeds, articles, now, last, started, sched, fallback, reg>>

\* ------------------------------------------------------------ fetchFeedArticles
\* the feed of the fetchFeedArticles call that c is in
Cur(c) == calls[c].loaded[calls[c].k]

\* both parsers fail: the error goes to the catch block
ParseFail(c) ==
  /\ calls[c].pc = "parse"
  /\ Cur(c).errorCount < MaxErr
  /\ calls' = [calls EXCEPT ![c].pc = "catch", ![c].path = "parse failed"]
  /\ UNCHANGED <<feeds, articles, now, last, started, faults, sched, fallback, reg>>

\* the first early return alone
EarlyReturnNoItems(items, valid) == Len(items) = 0

\* the two early returns: no items, no valid articles
EarlyReturn(items, valid) == Len(items) = 0 \/ Len(valid) = 0

\* a parser succeeds with items; map, filter, and the two early returns
ParseOk(c, items) ==
  LET cr == calls[c]
      f == Cur(c).id
      valid == ValidArticles(items, now)
      got == [cr EXCEPT !.items = items, !.arts = valid,
                        !.again = last.clean /\ last.feed = f /\ last.items = items]
  IN  /\ cr.pc = "parse"
      /\ IF EarlyReturn(items, valid)
         THEN /\ calls' = [calls EXCEPT ![c] =
                   Leave(got, TRUE, 0,
                         IF Len(items) = 0 THEN "no items" ELSE "no valid articles",
                         feeds[f], feeds[f])]
              /\ last' = Remember(got, TRUE)
         ELSE /\ calls' = [calls EXCEPT ![c] = [got EXCEPT !.pc = "existing"]]
              /\ last' = last
      /\ UNCHANGED <<feeds, articles, now, started, faults, sched, fallback, reg>>

\* bulkCreateSafeWithDupeCheck: [] for no articles, else
\* await this.findAll({ where: { feedId } }) and the three lookup sets
LoadExisting(c) ==
  LET cr == calls[c]
      f == Cur(c).id
  IN  /\ cr.pc = "existing"
      /\ \E fault \in BOOLEAN :
           /\ Failing(fault)
           /\ fault => Cur(c).errorCount < MaxErr /\ Len(cr.arts) > 0
           /\ faults' = IF fault THEN faults + 1 ELSE faults
           /\ calls' = [calls EXCEPT ![c] =
                IF fault
                THEN [cr EXCEPT !.pc = "catch", !.fault = TRUE, !.path = "store failed"]
                ELSE IF Len(cr.arts) = 0
                THEN [cr EXCEPT !.pc = "update"]
                ELSE [cr EXCEPT !.pc = "create", !.i = 1,
                                !.links = ExistingLinks(articles, f),
                                !.guids = ExistingGuids(articles, f),
                                !.titles = ExistingTitles(articles, f)]]
      /\ UNCHANGED <<feeds, articles, now, last, started, sched, fallback, reg>>

\* plain create of every candidate, with no check before it and no index
CreatesUnchecked(a, links, guids, titles, tbl, f) == Validates(Row(a, f))

\* whether candidate a becomes a row: it passes the three-tier check and the
\* store takes the INSERT
Creates(a, links, guids, titles, tbl, f) ==
  DuplicateReason(a, links, guids, titles) = "" /\ Accepts(tbl, Row(a, f))

\* a lookup set that takes nothing in
SeenNothing(set, v) == set

\* if (articleData.<field>) existing<Field>s.add(articleData.<field>)
Seen(set, v) == set \cup ({v} \ {Empty})

\* a create whose error is thrown on, out of bulkCreateSafeWithDupeCheck
Rethrown(cr, next) == [next EXCEPT !.pc = "catch", !.path = "store failed"]

\* the catch around create: the error is logged, the loop goes on
Caught(cr, next) == next

\* one turn of the for loop: the check, and await this.create(...) with its catch
CreateNext(c) ==
  LET cr == calls[c]
      f == Cur(c).id
      a == cr.arts[cr.i]
      reason == DuplicateReason(a, cr.links, cr.guids, cr.titles)
      tried == reason = ""
      next == [cr EXCEPT !.i = @ + 1, !.duplicateReason = reason,
                         !.pc = IF cr.i = Len(cr.arts) THEN "update" ELSE "create"]
  IN  /\ cr.pc = "create"
      /\ \E fault \in BOOLEAN :
           /\ Failing(fault)
           /\ fault => tried
           /\ faults' = IF fault THEN faults + 1 ELSE faults
           /\ IF ~fault /\ Creates(a, cr.links, cr.guids, cr.titles, articles, f)
              THEN /\ articles' = articles (+) SetToBag({Row(a, f)})
                   /\ calls' = [calls EXCEPT ![c] =
                        [next EXCEPT !.n = @ + 1, !.made = @ + 1,
                                     !.newArticles = Append(@, a),
                                     !.links = Seen(@, a.link),
                                     !.guids = Seen(@, a.guid),
                                     !.titles = Seen(@, a.title)]]
                   /\ last' = NoLast
              ELSE /\ articles' = articles
                   /\ calls' = [calls EXCEPT ![c] =
                        IF ~tried
                        THEN [next EXCEPT !.skipped = @ + 1]
                        ELSE Caught(cr,
                               [next EXCEPT
                                  !.fault = @ \/ fault,
                                  !.refused = IF ~fault /\ ~Validates(Row(a, f))
                                              THEN @ + 1 ELSE @,
                                  !.conflicts = IF ~fault /\ Validates(Row(a, f))
                                                THEN @ + 1 ELSE @])]
                   /\ last' = last
      /\ UNCHANGED <<feeds, now, started, sched, fallback, reg>>

\* a success update that leaves the error count alone
SuccessRowKeepsCount(row, t) == [row EXCEPT !.lastFetched = t]

\* the feed row after feed.update({ lastFetched: new Date(), errorCount: 0 })
SuccessRow(row, t) == [row EXCEPT !.errorCount = 0, !.lastFetched = t]

\* an error update that also switches the feed off
ErrorRowSwitchesOff(row, inst, t) ==
  [row EXCEPT !.errorCount = inst.errorCount + 1, !.lastFetched = t,
              !.isActive = FALSE]

\* an error update that leaves the error count alone
ErrorRowKeepsCount(row, inst, t) == [row EXCEPT !.lastFetched = t]

\* the feed row after
\* feed.update({ lastFetched: new Date(), errorCount: (feed.errorCount || 0) + 1 })
ErrorRow(row, inst, t) ==
  [row EXCEPT !.errorCount = inst.errorCount + 1, !.lastFetched = t]

\* a return of the number of candidates handed to the bulk insert
ReturnedCandidates(cr) == Len(cr.arts)

\* return newArticles.length
Returned(cr) == cr.n

\* await feed.update(...) on success; return newArticles.length.  update()
\* sets the instance's fields, then saves
UpdateFeed(c) ==
  LET cr == calls[c]
      f == Cur(c).id
      row == SuccessRow(feeds[f], now)
      set == [cr EXCEPT !.loaded[cr.k].errorCount = 0]
  IN  /\ cr.pc = "update"
      /\ \E fault \in BOOLEAN :
           /\ Failing(fault)
           /\ faults' = IF fault THEN faults + 1 ELSE faults
           /\ IF fault
              THEN /\ feeds' = feeds
                   /\ calls' = [calls EXCEPT ![c] =
                        [set EXCEPT !.pc = "catch", !.fault = TRUE, !.path = "store failed"]]
                   /\ last' = last
              ELSE /\ feeds' = [feeds EXCEPT ![f] = row]
                   /\ calls' = [calls EXCEPT ![c] =
                        Leave(set, TRUE, Returned(cr), "saved", feeds[f], row)]
                   /\ last' = Remember(cr, TRUE)
      /\ UNCHANGED <<articles, now, started, sched, fallback, reg>>

\* catch: await feed.update(...) with the error count; throw
CatchUpdate(c) ==
  LET cr == calls[c]
      f == Cur(c).id
      row == ErrorRow(feeds[f], Cur(c), now)
      set == [cr EXCEPT !.loaded[cr.k].errorCount = @ + 1]
  IN  /\ cr.pc = "catch"
      /\ \E fault \in BOOLEAN :
           /\ Failing(fault)
           /\ faults' = IF fault THEN faults + 1 ELSE faults
           /\ feeds' = IF fault THEN feeds ELSE [feeds EXCEPT ![f] = row]
           /\ calls' = [calls EXCEPT ![c] =
                IF fault
                THEN Leave([set EXCEPT !.fault = TRUE], FALSE, 0, cr.path, feeds[f], feeds[f])
                ELSE Leave(set, FALSE, 0, cr.path, feeds[f], row)]
           /\ last' = Remember(cr, FALSE)
      /\ UNCHANGED <<articles, now, started, sched, fallback, reg>>

\* a job body without its try/catch
ReachesUncaught(cr) == cr.result

\* what the one awaiting the call gets: a job body logs the error it catches,
\* a trigger logs and rethrows it
Reaches(cr) == IF cr.by = "job" /\ cr.result = "threw" THEN "logged" ELSE cr.result

\* the caller takes the result; the slot is free again
Return(c) ==
  /\ calls[c].pc = "done"
  /\ calls' = [calls EXCEPT ![c] =
       [IdleCall EXCEPT !.caught = IF Reaches(calls[c]) = "logged"
                                   THEN calls[c].job ELSE 0]]
  /\ UNCHANGED <<feeds, articles, now, last, started, faults, sched, fallback, reg>>

\* ------------------------------------------------------------ cleanOldArticles
\* articlesPerFeedToKeep = 100
DefaultCap == 100

\* the arguments tried for cleanOldArticles(daysToKeep, articlesPerFeedToKeep)
PruneDays == {0, 1}
PruneCaps == {1, 2}

\* the age query with less-than-or-equal
OldArticlesInclusive(tbl, days, t) == {r \in BagToSet(tbl) : r.pubDate + days <= t}

\* where: { pubDate: { [Op.lt]: cutoffDate } }, cutoffDate days before t
OldArticles(tbl, days, t) == {r \in BagToSet(tbl) : r.pubDate + days < t}

\* what ROW_NUMBER() OVER (PARTITION BY "feedId" ORDER BY "pubDate" DESC)
\* can number the rows; rows of one feed and one pubDate come in any order
RowNumbers(tbl) ==
  LET rows == BagToSet(tbl)
      most == Cardinality(rows)
  IN  {rn \in [rows -> 1..most] :
         \A x \in rows :
           /\ rn[x] <= Cardinality(OfFeed(tbl, x.feedId))
           /\ \A y \in OfFeed(tbl, x.feedId) :
                /\ x # y => rn[x] # rn[y]
                /\ x.pubDate > y.pubDate => rn[x] < rn[y]}

\* WHERE rn > :articlesPerFeedToKeep
ExcessArticles(tbl, rn, cap) == {r \in BagToSet(tbl) : rn[r] > cap}

\* a destroy that leaves the rows where findAll still sees them
WithoutNone(tbl, ids) == tbl

\* the table after this.destroy({ where: { id: ids } })
Without(tbl, ids) == [r \in BagToSet(tbl) \ ids |-> tbl[r]]

\* Article.cleanOldArticles(days, cap) is called; cutoffDate is computed
StartClean(c, days, cap) ==
  /\ calls[c].pc = "idle"
  /\ started < MaxRuns
  /\ started' = started + 1
  /\ calls' = [calls EXCEPT ![c] =
       [IdleCall EXCEPT !.kind = "clean", !.pc = "old", !.days = days, !.cap = cap,
                        !.cutoffNow = now, !.table = articles]]
  /\ UNCHANGED <<feeds, articles, now, last, faults, sched, fallback, reg>>

\* a store operation of cleanOldArticles rejects: the error goes to the caller
CleanThrows(cr) == [cr EXCEPT !.pc = "done", !.result = "threw", !.fault = TRUE]

\* oldArticles = await this.findAll(...)
CleanOld(c) ==
  LET cr == calls[c]
  IN  /\ cr.pc = "old"
      /\ \E fault \in BOOLEAN :
           /\ Failing(fault)
           /\ faults' = IF fault THEN faults + 1 ELSE faults
           /\ calls' = [calls EXCEPT ![c] =
                IF fault THEN CleanThrows(cr)
                ELSE [cr EXCEPT !.pc = "excess",
                                !.old = OldArticles(articles, cr.days, cr.cutoffNow)]]
      /\ UNCHANGED <<feeds, articles, now, last, started, sched, fallback, reg>>

\* excessArticles = await sequelize.query(...)
CleanExcess(c) ==
  LET cr == calls[c]
  IN  /\ cr.pc = "excess"
      /\ \E fault \in BOOLEAN :
           /\ Failing(fault)
           /\ faults' = IF fault THEN faults + 1 ELSE faults
           /\ IF fault
              THEN calls' = [calls EXCEPT ![c] = CleanThrows(cr)]
              ELSE \E rn \in RowNumbers(articles) :
                     calls' = [calls EXCEPT ![c] =
                       [cr EXCEPT !.pc = "destroy",
                                  !.excess = ExcessArticles(articles, rn, cr.cap)]]
      /\ UNCHANGED <<feeds, articles, now, last, started, sched, fallback, reg>>

\* allArticleIds; await this.destroy(...) if there are any, else 0
CleanDestroy(c) ==
  LET cr == calls[c]
      ids == cr.old \cup cr.excess
      left == Without(articles, ids)
  IN  /\ cr.pc = "destroy"
      /\ \E fault \in BOOLEAN :
           /\ Failing(fault)
           /\ fault => ids # {}
           /\ faults' = IF fault THEN faults + 1 ELSE faults
           /\ articles' = IF fault THEN articles ELSE left
           /\ calls' = [calls EXCEPT ![c] =
                IF fault THEN CleanThrows(cr)
                ELSE [cr EXCEPT !.pc = "done", !.result = "returned",
                                !.value = BagCardinality(articles) - BagCardinality(left)]]
           /\ last' = IF fault \/ ids = {} THEN last ELSE NoLast
      /\ UNCHANGED <<feeds, now, started, sched, fallback, reg>>

\* ------------------------------------------------------------ ArticleScheduler
\* parseInt(process.env.ARTICLE_RETENTION_DAYS) || 30
DefaultDays == 30

Retention == IF sched.retention # 0 THEN sched.retention ELSE DefaultDays

\* the jobs that still fire: created by cron.schedule and not destroyed
Armed == {j \in 1..Len(sched.jobs) : ~sched.jobs[j].destroyed}

\* init(): nothing unless enabled; else two new cron jobs, stored under
\* their names in place of what was there
SchedInit ==
  LET n == Len(sched.jobs)
  IN  /\ n < 2 * MaxInits
      /\ sched' =
           IF ~sched.enabled
           THEN [sched EXCEPT !.initRan = TRUE]
           ELSE [sched EXCEPT
                   !.initRan = TRUE,
                   !.jobs = @ \o <<[name |-> "articleFetch", destroyed |-> FALSE],
                                   [name |-> "articleCleanup", destroyed |-> FALSE]>>,
                   !.scheduledJobs = [articleFetch |-> n + 1, articleCleanup |-> n + 2],
                   !.running = TRUE]
      /\ UNCHANGED <<feeds, articles, now, calls, last, started, faults, fallback, reg>>

\* stop(): destroy the jobs that scheduledJobs holds, clear it
SchedStop ==
  LET held == {sched.scheduledJobs[n] : n \in JobNames} \ {0}
  IN  /\ sched' =
           [sched EXCEPT
              !.jobs = [j \in 1..Len(sched.jobs) |->
                          IF j \in held THEN [sched.jobs[j] EXCEPT !.destroyed = TRUE]
                          ELSE sched.jobs[j]],
              !.scheduledJobs = [n \in JobNames |-> 0],
              !.running = FALSE]
      /\ UNCHANGED <<feeds, articles, now, calls, last, started, faults, fallback, reg>>

\* the call a job body or a trigger makes: fetchAllFeeds()
FetchCall(by) ==
  [IdleCall EXCEPT !.kind = "all", !.pc = "list", !.by = by, !.armed = sched.running]

\* the call a job body or a trigger makes: cleanupOldArticles(days)
CleanupCall(by, days) ==
  [IdleCall EXCEPT !.kind = "clean", !.pc = "old", !.by = by, !.armed = sched.running,
                   !.days = days, !.cap = DefaultCap,
                   !.cutoffNow = now, !.table = articles]

\* cron fires job j: its callback runs
Fire(c, j) ==
  /\ j \in Armed
  /\ calls[c].pc = "idle"
  /\ started < MaxRuns
  /\ started' = started + 1
  /\ calls' = [calls EXCEPT ![c] =
       [(IF sched.jobs[j].name = "articleFetch"
         THEN FetchCall("job") ELSE CleanupCall("job", Retention))
        EXCEPT !.job = j, !.caught = calls[c].caught]]
  /\ UNCHANGED <<feeds, articles, now, last, faults, sched, fallback, reg>>

\* a trigger that stops the scheduler before it fetches
TriggerFetchStopping(c) ==
  /\ calls[c].pc = "idle"
  /\ started < MaxRuns
  /\ started' = started + 1
  /\ calls' = [calls EXCEPT ![c] = FetchCall("trigger")]
  /\ sched' = [sched EXCEPT
                 !.jobs = [j \in 1..Len(sched.jobs) |->
                             [sched.jobs[j] EXCEPT !.destroyed = TRUE]],
                 !.scheduledJobs = [n \in JobNames |-> 0]]
  /\ UNCHANGED <<feeds, articles, now, last, faults, fallback, reg>>

\* triggerFetch()
TriggerFetch(c) ==
  /\ calls[c].pc = "idle"
  /\ started < MaxRuns
  /\ started' = started + 1
  /\ calls' = [calls EXCEPT ![c] = FetchCall("trigger")]
  /\ UNCHANGED <<feeds, articles, now, last, faults, sched, fallback, reg>>

\* triggerCleanup(daysToKeep), 0 for none: days = daysToKeep || ... || 30
TriggerCleanup(c, daysToKeep) ==
  /\ calls[c].pc = "idle"
  /\ started < MaxRuns
  /\ started' = started + 1
  /\ calls' = [calls EXCEPT ![c] =
       CleanupCall("trigger", IF daysToKeep # 0 THEN daysToKeep ELSE Retention)]
  /\ UNCHANGED <<feeds, articles, now, last, faults, sched, fallback, reg>>

\* ------------------------------------------------------------ parseWithFeedParser
\* const userAgents = [...]
userAgents ==
  << "Chrome/120 Windows", "Chrome/120 Macintosh", "Chrome/120 Linux",
     "RSS Feed Reader Bot/1.0", "Feedfetcher-Google" >>

\* setTimeout(tryRequest, 1000), in seconds
TimerDelay == 1

\* a retry scheduled without any delay
DueAtOnce(t) == t

\* the earliest time the callback of setTimeout(tryRequest, 1000) set at t runs
Due(t) == t + TimerDelay

\* tryRequest(): the guard on currentAgent, else axios({... 'User-Agent':
\* userAgents[currentAgent] ...}) is issued
tryRequest(p) ==
  IF p.currentAgent >= Len(userAgents)
  THEN [p EXCEPT !.pc = "rejected", !.error = "All User-Agent strings failed"]
  ELSE [p EXCEPT !.pc = "request",
                 !.requests = Append(@, [agent |-> userAgents[p.currentAgent + 1],
                                         sent |-> p.clock, ended |-> p.clock,
                                         open |-> TRUE, failed |-> FALSE])]

\* the request in flight ends at the current time
EndRequest(p, failed) ==
  [p EXCEPT !.requests[Len(p.requests)] =
              [@ EXCEPT !.ended = p.clock, !.open = FALSE, !.failed = failed]]

\* time passes
Elapse ==
  /\ fallback.clock < MaxClock
  /\ fallback' = [fallback EXCEPT !.clock = @ + 1]
  /\ UNCHANGED <<feeds, articles, now, calls, last, started, faults, sched, reg>>

\* the primary parser has failed and parseWithFeedParser(url) is called: the
\* promise is created, the handlers are registered, tryRequest() runs
ParseWithFeedParser ==
  /\ fallback.pc = "idle"
  /\ fallback' = tryRequest(fallback)
  /\ UNCHANGED <<feeds, articles, now, calls, last, started, faults, sched, reg>>

\* axios resolves: .then(response => response.data.pipe(feedparser))
Response ==
  /\ fallback.pc = "request"
  /\ fallback' = [EndRequest(fallback, FALSE) EXCEPT !.pc = "stream"]
  /\ UNCHANGED <<feeds, articles, now, calls, last, started, faults, sched, reg>>

\* axios rejects (no connection, timeout, status outside 2xx): .catch(err => ...)
RequestFailed ==
  LET p == [EndRequest(fallback, TRUE) EXCEPT !.currentAgent = @ + 1]
  IN  /\ fallback.pc = "request"
      /\ fallback' =
           IF p.currentAgent < Len(userAgents)
           THEN [p EXCEPT !.pc = "timer", !.due = Due(p.clock)]
           ELSE [p EXCEPT !.pc = "rejected", !.error = "request failed"]
      /\ UNCHANGED <<feeds, articles, now, calls, last, started, faults, sched, reg>>

\* the timer set by setTimeout(tryRequest, 1000) runs its callback
TimerFires ==
  /\ fallback.pc = "timer"
  /\ fallback.clock >= fallback.due
  /\ fallback' = tryRequest(fallback)
  /\ UNCHANGED <<feeds, articles, now, calls, last, started, faults, sched, reg>>

\* feedparser.on('end', ...): the promise resolves with the items read
ParserEnd ==
  /\ fallback.pc = "stream"
  /\ fallback' = [fallback EXCEPT !.pc = "resolved"]
  /\ UNCHANGED <<feeds, articles, now, calls, last, started, faults, sched, reg>>

\* feedparser.on('error', reject): the body piped in is not a feed
ParserError ==
  /\ fallback.pc = "stream"
  /\ fallback' = [fallback EXCEPT !.pc = "rejected", !.error = "not a feed"]
  /\ UNCHANGED <<feeds, articles, now, calls, last, started, faults, sched, reg>>

\* ------------------------------------------------------------ validateFeedUrl, createFeed, beforeCreate
\* a parser's result: success, or an Error with its message (as words) and code
ParsedOk == [ok |-> TRUE, message |-> Empty, code |-> ""]
Failure(m, c) == [ok |-> FALSE, message |-> m, code |-> c]

\* rss-parser on HTTP 429 and 404, axios on HTTP 429, feedparser on a body
\* that is no feed, either on a refused connection
E429 == Failure(<<"Status", "code", "429">>, "")
E404 == Failure(<<"Status", "code", "404">>, "")
EAxios429 ==
  Failure(<<"Request", "failed", "with", "status", "code", "429">>, "ERR_BAD_REQUEST")
ENotAFeed == Failure(<<"Not", "a", "feed">>, "")
ERefused == Failure(<<"connect", "ECONNREFUSED", "10.0.0.1:80">>, "ECONNREFUSED")

PrimaryResults == {ParsedOk, E429, E404, ERefused}
FallbackResults == {ParsedOk, EAxios429, ENotAFeed, ERefused}

\* const allowableErrors = [...]
allowableErrors ==
  { <<"Response", "code", "403">>, <<"Status", "code", "403">>,
    <<"Response", "code", "429">>, <<"Status", "code", "429">>,
    <<"Response", "code", "503">>, <<"Status", "code", "503">>,
    <<"ETIMEDOUT">>, <<"ENOTFOUND">>, <<"ECONNREFUSED">>,
    <<"socket", "hang", "up">>, <<"timeout">>, <<"Request", "timeout">>,
    <<"getaddrinfo", "ENOTFOUND">>,
    <<"Non-whitespace", "before", "first", "tag">>,
    <<"Invalid", "character", "in", "entity", "name">>,
    <<"Unexpected", "end", "of", "input">> }

\* String.prototype.includes, on words
Includes(s, sub) ==
  \E i \in 0..Len(s) :
    i + Len(sub) <= Len(s) /\ SubSeq(s, i + 1, i + Len(sub)) = sub

\* allowableErrors.some(a => e.message.includes(a) || e.code === a)
IsAllowableError(e) ==
  \E a \in allowableErrors : Includes(e.message, a) \/ a = <<e.code>>

\* allowableErrors.some(a => validation.error.includes(a))
IsAllowableText(text) == \E a \in allowableErrors : Includes(text, a)

\* `Both parsers failed. Primary: ${...}, Fallback: ${...}`
BothFailed(p, f) ==
  <<"Both", "parsers", "failed.", "Primary:">> \o p.message
    \o <<",", "Fallback:">> \o f.message

\* `Feed may not be accessible right now ... Primary: ${...}, Fallback: ${...}`
MayNotBeAccessible(p, f) ==
  <<"Feed", "may", "not", "be", "accessible", "right", "now", "(both", "parsers",
    "failed),", "but", "will", "be", "created", "anyway.", "Primary:">>
    \o p.message \o <<",", "Fallback:">> \o f.message

\* what the remote feed declares, and the placeholders
RemoteTitle == Str("Remote Title")
RemoteDescription == Str("Remote Description")
UnableToFetch == <<"Feed", "Title", "(Unable", "to", "fetch)">>
WillBeUpdated ==
  <<"Description", "will", "be", "updated", "when", "feed", "becomes", "accessible">>
UntitledFeed == Str("Untitled Feed")
UsedFallback ==
  <<"Feed", "parsed", "successfully", "using", "fallback", "parser", "(feedparser)">>

\* a test that lets a failure through only if both errors are allowable
AllowedThroughBoth(p, f) == IsAllowableError(p) /\ IsAllowableError(f)

\* if (isPrimaryAllowableError || isFallbackAllowableError)
AllowedThrough(p, f) == IsAllowableError(p) \/ IsAllowableError(f)

\* FeedService.validateFeedUrl(url), the parsers returning p and f
validateFeedUrl(p, f) ==
  LET found(step, warning) ==
        [valid |-> TRUE, step |-> step, warning |-> warning, error |-> Empty,
         hasInfo |-> TRUE, title |-> RemoteTitle, description |-> RemoteDescription,
         primary |-> p.message, fallback |-> f.message]
  IN  IF p.ok THEN [found("primary", Empty) EXCEPT !.fallback = Empty]
      ELSE IF f.ok THEN found("fallback", UsedFallback)
      ELSE IF AllowedThrough(p, f)
      THEN [valid |-> TRUE, step |-> "allowed", warning |-> MayNotBeAccessible(p, f),
            error |-> Empty, hasInfo |-> TRUE, title |-> UnableToFetch,
            description |-> WillBeUpdated,
            primary |-> p.message, fallback |-> f.message]
      ELSE [valid |-> FALSE, step |-> "refused", warning |-> Empty,
            error |-> BothFailed(p, f), hasInfo |-> FALSE, title |-> Empty,
            description |-> Empty,
            primary |-> p.message, fallback |-> f.message]

\* Feed.validateFeedUrl(url) of the model, the parsers returning p and f
ModelValidateFeedUrl(p, f) ==
  IF p.ok \/ f.ok
  THEN [valid |-> TRUE, error |-> Empty, title |-> RemoteTitle,
        description |-> RemoteDescription, ran |-> TRUE]
  ELSE [valid |-> FALSE, error |-> BothFailed(p, f), title |-> Empty,
        description |-> Empty, ran |-> TRUE]

\* the hook reaches throw new Error(`Invalid feed URL: ...`)
HookThrows(v) == ~v.valid /\ ~IsAllowableText(v.error)

\* hooks.beforeCreate: the feed as the hook leaves it.  Its throw is inside
\* its own try, whose catch sets the same defaults and returns
beforeCreate(feed, v) ==
  IF v.valid
  THEN [feed EXCEPT !.title = Or(@, v.title), !.description = Or(@, v.description)]
  ELSE [feed EXCEPT !.title = Or(@, UnableToFetch), !.description = Or(@, WillBeUpdated)]

\* feedInfo.title read through optional chaining
FeedInfoOptional(v) == TRUE

\* const feedInfo = validation.feedInfo; feedInfo.title can be read (else a
\* TypeError goes to the catch of createFeed)
FeedInfoReadable(v) == v.hasInfo

\* createFeed(feedData, userId) is called; await this.validateFeedUrl(url).
\* The throw on an invalid result is commented out
CreateFeed(u, t) ==
  /\ reg.pc = "idle"
  /\ \E p \in PrimaryResults, f \in FallbackResults :
       reg' = [NoRegistration EXCEPT
                 !.rows = reg.rows, !.pc = "findOne", !.url = u, !.title = t,
                 !.validation = validateFeedUrl(p, f)]
  /\ UNCHANGED <<feeds, articles, now, calls, last, started, faults, sched, fallback>>

\* await Feed.findOne({ where: { url } }): subscribe to the feed found, else
\* read validation.feedInfo
FindOne ==
  /\ reg.pc = "findOne"
  /\ reg' = IF reg.rows[reg.url].stored
            THEN [reg EXCEPT !.pc = "done", !.outcome = "subscribed"]
            ELSE IF FeedInfoReadable(reg.validation)
                 THEN [reg EXCEPT !.pc = "create"]
                 ELSE [reg EXCEPT !.pc = "done", !.outcome = "threw"]
  /\ UNCHANGED <<feeds, articles, now, calls, last, started, faults, sched, fallback>>

\* await Feed.create({...}): the beforeCreate hook validates the url again,
\* then the row is inserted; the subscription follows.  feedData carries no
\* description
FeedCreate ==
  LET given == [stored |-> TRUE,
                title |-> Or(reg.validation.title, Or(reg.title, UntitledFeed)),
                description |-> Or(reg.validation.description, Empty)]
  IN  /\ reg.pc = "create"
      /\ \E p \in PrimaryResults, f \in FallbackResults :
           LET v == ModelValidateFeedUrl(p, f)
           IN  reg' = [reg EXCEPT !.pc = "fetch", !.hook = v, !.threw = HookThrows(v),
                                  !.rows[reg.url] = beforeCreate(given, v)]
      /\ UNCHANGED <<feeds, articles, now, calls, last, started, faults, sched, fallback>>

\* try { await ArticleFetcher.fetchFeedArticles(feed) } catch (fetchError):
\* the articles of the new feed are fetched, a failure is only logged, and
\* createFeed returns the feed
FirstFetch ==
  /\ reg.pc = "fetch"
  /\ \E r \in {"fetched", "caught"} :
       reg' = [reg EXCEPT !.pc = "done", !.outcome = "created", !.fetched = r]
  /\ UNCHANGED <<feeds, articles, now, calls, last, started, faults, sched, fallback>>

\* createFeed returns or throws; the service is free for the next call
Registered ==
  /\ reg.pc = "done"
  /\ reg' = [NoRegistration EXCEPT !.rows = reg.rows]
  /\ UNCHANGED <<feeds, articles, now, calls, last, started, faults, sched, fallback>>

\* ------------------------------------------------------------ specifications
\* one call at a time, the parse results drawn from contents
Sequential(contents) ==
  \/ StartAll(1)
  \/ \E f \in Feeds : StartOne(1, f)
  \/ ListFeeds(1)
  \/ FindFeed(1)
  \/ ParseFail(1)
  \/ \E items \in contents : ParseOk(1, items)
  \/ LoadExisting(1)
  \/ CreateNext(1)
  \/ UpdateFeed(1)
  \/ CatchUpdate(1)
  \/ Return(1)

\* one call at a time while time passes, on a store that does not fail
Next ==
  \/ Tick
  \/ Sequential(FeedContents)

Spec == Init /\ [][Next]_vars

\* one call at a time while the administrator switches feeds on and off
NextAdmin ==
  \/ \E f \in Feeds, b \in BOOLEAN : SetActive(f, b)
  \/ Sequential(FewContents)

SpecAdmin == Init /\ [][NextAdmin]_vars

\* one call at a time on a store that can fail
InitFault ==
  /\ feeds = [f \in Feeds |-> [isActive |-> TRUE, errorCount |-> 0, lastFetched |-> 0]]
  /\ articles = EmptyBag
  /\ now = 0
  /\ calls = [c \in Calls |-> IdleCall]
  /\ last = NoLast
  /\ started = 0
  /\ faults = 0
  /\ sched = NoScheduler
  /\ fallback = NoFallback
  /\ reg = NoRegistration

NextFault == Sequential(FewContents)

SpecFault == InitFault /\ [][NextFault]_vars

\* calls that overlap in time: a run or a single fetch in slot 1, a single
\* fetch in slot 2
NextRace ==
  \/ StartAll(1)
  \/ \E c \in Calls, f \in Feeds : StartOne(c, f)
  \/ ListFeeds(1)
  \/ \E c \in Calls : FindFeed(c)
  \/ \E c \in Calls : ParseFail(c)
  \/ \E c \in Calls, items \in FewContents : ParseOk(c, items)
  \/ \E c \in Calls : LoadExisting(c)
  \/ \E c \in Calls : CreateNext(c)
  \/ \E c \in Calls : UpdateFeed(c)
  \/ \E c \in Calls : CatchUpdate(c)
  \/ \E c \in Calls : Return(c)

SpecRace == Init /\ [][NextRace]_vars

\* rows that earlier fetches can have stored: valid, no link twice, no
\* guid twice in a feed
StoredRow(w, f, d) == Row(Normalize(Entry(Str("T"), w, w, Body, d), 0), f)

RowPool ==
  {StoredRow(U1, 1, 0), StoredRow(U2, 1, 1), StoredRow(U3, 1, 1),
   StoredRow(U4, 2, 0), StoredRow(U5, 2, 1)}

\* cleanOldArticles, one call at a time, on any table of stored rows
InitPrune ==
  /\ feeds = [f \in Feeds |-> [isActive |-> TRUE, errorCount |-> 0, lastFetched |-> 0]]
  /\ articles \in {SetToBag(rows) : rows \in SUBSET RowPool}
  /\ now = 0
  /\ calls = [c \in Calls |-> IdleCall]
  /\ last = NoLast
  /\ started = 0
  /\ faults = MaxFaults
  /\ sched = NoScheduler
  /\ fallback = NoFallback
  /\ reg = NoRegistration

NextPrune ==
  \/ Tick
  \/ \E days \in PruneDays, cap \in PruneCaps : StartClean(1, days, cap)
  \/ CleanOld(1)
  \/ CleanExcess(1)
  \/ CleanDestroy(1)
  \/ Return(1)

SpecPrune == InitPrune /\ [][NextPrune]_vars

\* the scheduler: init() and stop() in any order, jobs firing, manual
\* triggers, one job body or trigger at a time, on a store that can fail
SchedContents == { <<e1, eBlankBody>> }

InitSched ==
  /\ feeds = [f \in Feeds |-> [isActive |-> TRUE, errorCount |-> 0, lastFetched |-> 0]]
  /\ articles = EmptyBag
  /\ now = 0
  /\ calls = [c \in Calls |-> IdleCall]
  /\ last = NoLast
  /\ started = 0
  /\ faults = 0
  /\ sched \in {[NoScheduler EXCEPT !.enabled = b] : b \in BOOLEAN}
  /\ fallback = NoFallback
  /\ reg = NoRegistration

NextSched ==
  \/ SchedInit
  \/ SchedStop
  \/ \E j \in 1..(2 * MaxInits) : Fire(1, j)
  \/ TriggerFetch(1)
  \/ \E d \in {0, 1} : TriggerCleanup(1, d)
  \/ ListFeeds(1)
  \/ ParseFail(1)
  \/ \E items \in SchedContents : ParseOk(1, items)
  \/ LoadExisting(1)
  \/ CreateNext(1)
  \/ UpdateFeed(1)
  \/ CatchUpdate(1)
  \/ CleanOld(1)
  \/ CleanExcess(1)
  \/ CleanDestroy(1)
  \/ Return(1)

SpecSched == InitSched /\ [][NextSched]_vars

\* one fallback parse of one feed URL, against every behaviour of the server
NextParse ==
  \/ Elapse
  \/ ParseWithFeedParser
  \/ Response
  \/ RequestFailed
  \/ TimerFires
  \/ ParserEnd
  \/ ParserError

SpecParse == Init /\ [][NextParse]_vars

\* what the remote feed lists throughout: an article with a pubDate of its
\* own and one without
RefetchList == <<e1, FallbackItem(rBare)>>

\* feed 1 as a fetch at time 0 left it
InitRefetch ==
  /\ feeds = [f \in Feeds |-> [isActive |-> TRUE, errorCount |-> 0, lastFetched |-> 0]]
  /\ articles = SetToBag({Row(Normalize(RefetchList[k], 0), 1) : k \in 1..Len(RefetchList)})
  /\ now = 0
  /\ calls = [c \in Calls |-> IdleCall]
  /\ last = NoLast
  /\ started = 0
  /\ faults = MaxFaults
  /\ sched = NoScheduler
  /\ fallback = NoFallback
  /\ reg = NoRegistration

\* time passes, far enough for the dated article to be older than the cutoff
TickOn ==
  /\ now <= MaxNow
  /\ now' = now + 1
  /\ UNCHANGED <<feeds, articles, calls, last, started, faults, sched, fallback, reg>>

\* fetchFeedById(1) is called once the cleanup has returned
Refetch ==
  /\ calls[1].pc = "done"
  /\ StartOne(2, 1)

\* cleanOldArticles, and when it is over the next fetch of the feed
NextRefetch ==
  \/ TickOn
  \/ \E days \in PruneDays, cap \in PruneCaps : StartClean(1, days, cap)
  \/ CleanOld(1)
  \/ CleanExcess(1)
  \/ CleanDestroy(1)
  \/ Refetch
  \/ FindFeed(2)
  \/ ParseOk(2, RefetchList)
  \/ LoadExisting(2)
  \/ CreateNext(2)
  \/ UpdateFeed(2)

SpecRefetch == InitRefetch /\ [][NextRefetch]_vars

\* users register feed URLs, one createFeed call at a time, against every
\* result of the two parsers
NextRegister ==
  \/ \E u \in RegUrls, t \in {Empty, Str("My Feed")} : CreateFeed(u, t)
  \/ FindOne
  \/ FeedCreate
  \/ FirstFetch
  \/ Registered

SpecRegister == Init /\ [][NextRegister]_vars

\* ------------------------------------------------------------ properties
\* the rows of the articles table
Rows == BagToSet(articles)

\* the outcomes of the fetchFeedArticles calls the calls in flight completed
Entries == UNION {{calls[c].log[j] : j \in 1..Len(calls[c].log)} : c \in Calls}

\* the sum of the counts the successful fetches of a log returned
RECURSIVE SumReturned(_)
SumReturned(log) ==
  IF log = << >> THEN 0
  ELSE (IF Head(log).ok THEN Head(log).ret ELSE 0) + SumReturned(Tail(log))

\* C1: whatever fetches run and however they overlap, the articles table
\* never holds two rows with the same link.
LinkUnique ==
  \A r \in Rows :
    /\ CopiesIn(r, articles) = 1
    /\ \A q \in Rows : q.link = r.link => q = r

\* two fetches overlap, both stored rows, and the store refused to one of
\* them a candidate whose link its own lookup set did not hold but a row does
LinkRaceRefused ==
  \E c \in Calls :
    LET cr == calls[c]
    IN  /\ cr.pc \in {"create", "update"}
        /\ cr.i > 1
        /\ cr.conflicts > 0
        /\ cr.arts[cr.i - 1].link \notin cr.links
        /\ \E r \in Rows : r.link = cr.arts[cr.i - 1].link
        /\ \E d \in Calls \ {c} : calls[d].made > 0 /\ cr.made > 0

\* C2: whatever fetches run and however they overlap, no two rows of the
\* same feed have the same guid (two feeds may hold the same guid).
FeedGuidUnique ==
  \A r, q \in Rows : (r.feedId = q.feedId /\ r.guid = q.guid) => r = q

\* two overlapping fetches stored rows, and one guid is held by a row of
\* each feed
SameGuidInTwoFeeds ==
  /\ \A c \in Calls : calls[c].made > 0
  /\ \E r, q \in Rows : r.guid = q.guid /\ r.feedId # q.feedId

\* C3: every stored row has a link and a rawContent that are non-empty after
\* trimming; an item lacking either never reaches the duplicate check or the
\* insert, and dropping it does not make the fetch fail.
OnlyValidStored ==
  /\ \A r \in Rows : Trim(r.link) # Empty /\ Trim(r.rawContent) # Empty
  /\ \A c \in Calls :
       calls[c].pc \in {"existing", "create", "update"} =>
         \A j \in 1..Len(calls[c].arts) :
           /\ Trim(calls[c].arts[j].link) # Empty
           /\ Trim(calls[c].arts[j].rawContent) # Empty
  /\ \A e \in Entries :
       /\ e.made + e.skipped + e.conflicts + e.refused <= e.cands
       /\ (e.cands < e.size /\ e.path # "parse failed") => e.ok

\* a fetch dropped an item, stored the others and succeeded
DroppedAndStored ==
  \E e \in Entries : e.ok /\ e.cands < e.size /\ e.made > 0

\* C4: a fetch of a feed right after a successful fetch of the same feed,
\* the remote items the same and no write to the store in between, inserts
\* nothing and returns 0.
SecondFetchInsertsNothing ==
  \A e \in Entries : e.again => e.ok /\ e.made = 0 /\ e.ret = 0

\* such a second fetch met every candidate again, two of them in its lookup
\* sets and one at the store
SecondFetchSkipped ==
  \E e \in Entries : e.again /\ e.cands = 3 /\ e.skipped = 2 /\ e.conflicts = 1

\* C5 as stated: in a run over two feeds of which one fails and the other
\* succeeds, totalErrors is 1, totalFetched is what the other feed's fetch
\* returned, its rows are stored, the failed feed's errorCount is one higher
\* and the other feed's errorCount is 0.
IsolatedFailureResetsOther ==
  \A c \in Calls :
    LET cr == calls[c]
    IN  (cr.kind = "all" /\ cr.pc = "done" /\ Len(cr.log) = 2) =>
          \A a, b \in 1..2 :
            (~cr.log[a].ok /\ cr.log[b].ok) =>
              /\ cr.result = "returned"
              /\ cr.totalErrors = 1
              /\ cr.totalFetched = cr.log[b].ret
              /\ cr.log[b].made = cr.log[b].ret
              /\ cr.log[a].after.errorCount = cr.log[a].before.errorCount + 1
              /\ cr.log[b].after.errorCount = 0

\* C6: fetchAll throws only when the list of active feeds cannot be loaded,
\* and then it has modified no feed row and no article; an error inside a
\* feed's fetch (parse, insert, feed-row update) never ends the run.
RunThrowsOnlyAtList ==
  \A c \in Calls :
    LET cr == calls[c]
    IN  cr.kind = "all" =>
          /\ cr.result = "threw" =>
               cr.loaded = << >> /\ cr.log = << >> /\ cr.made = 0
          /\ (cr.pc = "done" /\ cr.loaded # << >>) =>
               cr.result = "returned" /\ Len(cr.log) = Len(cr.loaded)

\* a run returned although in one feed both the parse and the feed-row update
\* of the catch block failed
RunSurvivedFailedUpdate ==
  \E c \in Calls :
    /\ calls[c].kind = "all" /\ calls[c].pc = "done"
    /\ calls[c].result = "returned"
    /\ \E j \in 1..Len(calls[c].log) :
         LET e == calls[c].log[j]
         IN  ~e.ok /\ e.fault /\ e.path = "parse failed"

\* C7: a run that returns attempted exactly the feeds active when the list
\* was loaded, each once; feedsProcessed is their number, totalErrors the
\* number of attempts that raised, totalFetched the sum of the counts the
\* others returned.
RunSummaryAccounts ==
  \A c \in Calls :
    LET cr == calls[c]
        n == Len(cr.log)
    IN  (cr.kind = "all" /\ cr.pc = "done" /\ cr.result = "returned") =>
          /\ {cr.log[j].feed : j \in 1..n} = cr.active
          /\ n = Cardinality(cr.active)
          /\ cr.feedsProcessed = Cardinality(cr.active)
          /\ cr.totalErrors = Cardinality({j \in 1..n : ~cr.log[j].ok})
          /\ cr.totalFetched = SumReturned(cr.log)

\* a run attempted a feed that was switched off after the list was loaded,
\* one attempt raised and the other returned rows
RunOverSwitchedOffFeed ==
  \E c \in Calls :
    LET cr == calls[c]
    IN  /\ cr.kind = "all" /\ cr.pc = "done" /\ Len(cr.log) = 2
        /\ \E j \in 1..2 : ~feeds[cr.log[j].feed].isActive
        /\ cr.totalErrors = 1 /\ cr.totalFetched > 0

\* C8: when both parsers fail, the fetch raises to its caller, the feed's
\* errorCount becomes its previous value plus 1, lastFetched the current
\* time, nothing is inserted and isActive stays as it was.
FailureTransition ==
  /\ \A e \in Entries :
       e.path = "parse failed" =>
         /\ ~e.ok
         /\ e.after.errorCount = e.before.errorCount + 1
         /\ e.after.lastFetched = e.at
         /\ e.made = 0
         /\ e.after.isActive = e.before.isActive
  /\ \A c \in Calls :
       (calls[c].kind = "one" /\ calls[c].pc = "done"
          /\ calls[c].path = "parse failed") => calls[c].result = "threw"

\* a second failure in a row, later than the first
FailedAgainLater ==
  \E e \in Entries :
    /\ e.path = "parse failed"
    /\ e.before.errorCount = 1 /\ e.after.errorCount = 2
    /\ e.before.lastFetched < e.at

ErrorCountCountsFailuresInARow ==
  \A e \in Entries :
    /\ e.ok => e.after.errorCount = 0
    /\ ~e.ok => e.after.errorCount = e.before.errorCount + 1

\* C18: cleanOldArticles(days, cap) with no other write during it deletes
\* exactly the articles older than days before now together with each feed's
\* articles ranked beyond cap by pubDate descending, an article of both sets
\* once; it returns the size of that union and deletes no article that is
\* within the window and within its feed's cap.
PruneDeletesUnion ==
  \A c \in Calls :
    LET cr == calls[c]
        was == BagToSet(cr.table)
        gone == was \ Rows
        aged == {r \in was : r.pubDate + cr.days < cr.cutoffNow}
    IN  (cr.kind = "clean" /\ cr.pc = "done" /\ cr.result = "returned") =>
          /\ Rows \subseteq was
          /\ \A r \in Rows : CopiesIn(r, articles) = 1
          /\ cr.value = Cardinality(gone)
          /\ \E over \in SUBSET was :
               /\ gone = aged \cup over
               /\ \A f \in Feeds :
                    LET all == {r \in was : r.feedId = f}
                        out == {r \in over : r.feedId = f}
                    IN  /\ Cardinality(out) =
                             IF Cardinality(all) > cr.cap
                             THEN Cardinality(all) - cr.cap ELSE 0
                        /\ \A x \in out, y \in all \ out : x.pubDate <= y.pubDate

\* a cleanup deleted an article that was both too old and beyond the cap, and
\* one that was only beyond the cap, and kept another
PrunedBothWays ==
  \E c \in Calls :
    LET cr == calls[c]
    IN  /\ cr.kind = "clean" /\ cr.pc = "done" /\ cr.result = "returned"
        /\ cr.old \cap cr.excess # {}
        /\ cr.excess \ cr.old # {}
        /\ cr.value = Cardinality(cr.old \cup cr.excess)
        /\ Rows # {}

\* C12: no step of a fetch, of a cleanup or of the scheduler changes a
\* feed's isActive, whatever its errorCount; a feed that fails on every run
\* stays active and is listed by every later fetchAll.
NeverSwitchedOff ==
  /\ [][\A f \in Feeds : feeds'[f].isActive = feeds[f].isActive]_vars
  /\ [](\A c \in Calls :
          (calls[c].kind = "all" /\ calls[c].result # "threw"
             /\ calls[c].pc # "list") =>
            {calls[c].loaded[j].id : j \in 1..Len(calls[c].loaded)} = Feeds)

\* a feed failed in one run, was fetched and failed again in a later run, and
\* is still active with the largest errorCount
FailingFeedStillFetched ==
  \E e \in Entries :
    /\ ~e.ok /\ e.before.errorCount = MaxErr - 1
    /\ feeds[e.feed].errorCount = MaxErr
    /\ feeds[e.feed].isActive

\* C19 as stated: a job body runs only when its job fired while the
\* scheduler was running: never with the scheduler not enabled, and never
\* after stop() until a later init(), init() twice before a stop() included.
JobsFireOnlyWhileRunning ==
  \A c \in Calls : calls[c].by = "job" => calls[c].armed /\ sched.enabled

\* C20: triggerFetch() and triggerCleanup(days) make the calls the job
\* bodies make, hand the result or the error of the call to their caller,
\* and no step of them changes scheduledJobs or a job; they run with the
\* scheduler disabled, stopped or running.
ManualTriggers ==
  /\ [][\A c \in Calls :
          ((calls[c].by = "trigger" \/ calls'[c].by = "trigger")
             /\ calls'[c] # calls[c]) => sched' = sched]_vars
  /\ [](\A c \in Calls :
          calls[c].by = "trigger" =>
            /\ calls[c] \in {[FetchCall("trigger") EXCEPT !.armed = b] : b \in BOOLEAN}
                 \/ calls[c].pc # "list"
            /\ calls[c].kind \in {"all", "clean"}
            /\ calls[c].kind = "clean" => calls[c].cap = DefaultCap
            /\ calls[c].pc = "done" =>
                 /\ Reaches(calls[c]) = calls[c].result
                 /\ calls[c].result \in {"returned", "threw"})

\* a manual fetch returned rows while both jobs of a running scheduler
\* stayed armed
TriggeredWhileRunning ==
  \E c \in Calls :
    /\ calls[c].by = "trigger" /\ calls[c].kind = "all"
    /\ calls[c].pc = "done" /\ calls[c].result = "returned"
    /\ calls[c].totalFetched > 0
    /\ sched.running /\ Cardinality(Armed) = 2

\* C13: each candidate, in batch order, is skipped as 'duplicate link' if its
\* link is in the link set, else as 'duplicate guid' if its guid is in the
\* guid set, else as 'duplicate title' if its title is in the title set, and
\* else its insert is attempted; the sets start as the non-empty links, guids
\* and titles of the rows stored for the same feed.
ThreeTierCheck ==
  /\ [](\A c \in Calls :
          LET cr == calls[c]
              own == {r \in Rows : r.feedId = cr.loaded[cr.k].id}
          IN  (cr.pc = "create" /\ cr.i = 1) =>
                /\ cr.links = {r.link : r \in own} \ {Empty}
                /\ cr.guids = {r.guid : r \in own} \ {Empty}
                /\ cr.titles = {r.title : r \in own} \ {Empty})
  /\ [][\A c \in Calls :
          LET cr == calls[c]
              a == cr.arts[cr.i]
              want == IF a.link \in cr.links THEN "duplicate link"
                      ELSE IF a.guid \in cr.guids THEN "duplicate guid"
                      ELSE IF a.title \in cr.titles THEN "duplicate title"
                      ELSE ""
              tries == cr.made + cr.conflicts + cr.refused
              tries2 == calls'[c].made + calls'[c].conflicts + calls'[c].refused
          IN  (cr.pc = "create" /\ calls'[c] # cr) =>
                /\ calls'[c].duplicateReason = want
                /\ calls'[c].i = cr.i + 1
                /\ want # "" => (articles' = articles /\ tries2 = tries
                                   /\ calls'[c].skipped = cr.skipped + 1)
                /\ want = "" => (calls'[c].skipped = cr.skipped /\ tries2 = tries + 1)]_vars

\* a candidate was skipped for its title alone, after a row of its feed
DuplicateTitleSkipped ==
  \E c \in Calls :
    /\ calls[c].pc \in {"create", "update"}
    /\ calls[c].duplicateReason = "duplicate title"
    /\ calls[c].newArticles = << >>

\* C14: once a candidate is accepted its link, guid and title are in the
\* lookup sets for the later candidates of the batch, so the candidates one
\* call inserts share no link, no guid and no title.
InBatchDuplicates ==
  \A c \in Calls :
    LET cr == calls[c]
        new == cr.newArticles
    IN  /\ \A j \in 1..Len(new) :
             /\ new[j].link \in cr.links
             /\ new[j].guid \in cr.guids
             /\ new[j].title \in cr.titles
        /\ \A j, k \in 1..Len(new) :
             j # k => /\ new[j].link # new[k].link
                      /\ new[j].guid # new[k].guid
                      /\ new[j].title # new[k].title
        /\ cr.n = Len(new)

\* a fetch created one of three candidates and skipped the two after it that
\* had its link and its guid; the next created two untitled candidates' first
\* and skipped the second for its title
SkippedWithinBatch ==
  \E c \in Calls :
    /\ calls[c].pc = "update"
    /\ calls[c].duplicateReason = "duplicate title"
    /\ Len(calls[c].arts) = 4
    /\ calls[c].newArticles = <<calls[c].arts[1], calls[c].arts[2]>>
    /\ calls[c].arts[4].title = UntitledArticle
    /\ \E j \in 1..Len(calls[c].log) :
         LET e == calls[c].log[j]
         IN  e.cands = 3 /\ e.made = 1 /\ e.skipped = 2 /\ e.conflicts = 0

\* C15: when the store refuses a candidate for a uniqueness violation, the
\* bulk insert goes on with the other candidates and returns the articles it
\* created, and the fetch is a success: errorCount 0 and no error counted.
ConflictsSwallowed ==
  /\ \A e \in Entries :
       (e.conflicts > 0 /\ ~e.fault) =>
         /\ e.ok /\ e.path = "saved"
         /\ e.ret = e.made
         /\ e.made + e.skipped + e.conflicts + e.refused = e.cands
         /\ e.after.errorCount = 0
  /\ \A c \in Calls :
       (calls[c].kind = "all" /\ calls[c].pc = "done") =>
         calls[c].totalErrors = Cardinality({j \in 1..Len(calls[c].log) : ~calls[c].log[j].ok})

\* two overlapping fetches: the store refused one a candidate, which then
\* created a later candidate and succeeded
ConflictThenCreated ==
  \E c \in Calls :
    /\ \E d \in Calls \ {c} : calls[d].made > 0
    /\ \E j \in 1..Len(calls[c].log) :
         LET e == calls[c].log[j]
         IN  e.ok /\ e.conflicts > 0 /\ e.made > 0 /\ e.before.errorCount = 0

\* C16: a fallback parse that succeeds on its Nth User-Agent has issued
\* exactly N requests, with User-Agents 1..N of the list in that order, each
\* of the first N-1 failed and followed by a delay of at least the timer's
\* second before the next; at no time are two requests in flight, and once a
\* request is answered no other is issued.
FallbackOrdering ==
  /\ [](LET rq == fallback.requests
            n == Len(rq)
        IN  /\ \A j \in 1..n : rq[j].open => j = n /\ fallback.pc = "request"
            /\ \A j \in 1..n : rq[j].agent = userAgents[j]
            /\ fallback.pc = "resolved" =>
                 /\ n = fallback.currentAgent + 1
                 /\ ~rq[n].failed
                 /\ \A j \in 1..(n - 1) :
                      /\ rq[j].failed
                      /\ rq[j + 1].sent > rq[j].ended
                      /\ rq[j + 1].sent >= rq[j].ended + TimerDelay)
  /\ [][fallback.pc \in {"stream", "resolved"} =>
          fallback'.requests = fallback.requests]_vars

\* the fifth User-Agent was answered with a feed, after four failed requests
FifthAgentSucceeded ==
  /\ fallback.pc = "resolved"
  /\ Len(fallback.requests) = 5
  /\ fallback.requests[5].agent = "Feedfetcher-Google"

\* C17: the fallback parse fails only after every User-Agent of the list has
\* been used for a request.
FailsOnlyAfterAllAgents ==
  fallback.pc = "rejected" =>
    \A k \in 1..Len(userAgents) :
      \E j \in 1..Len(fallback.requests) : fallback.requests[j].agent = userAgents[k]

\* the calls in flight are all the calls there were: none has been taken
\* by its caller yet, so their logs hold every fetch made so far
NoneReturned == started = Cardinality({c \in Calls : calls[c].pc # "idle"})

\* the calls in flight have all completed
AllDone == \A c \in Calls : calls[c].pc \in {"idle", "done"}

\* the fetches of feed f in the log of call c
FetchesOf(c, f) == {j \in 1..Len(calls[c].log) : calls[c].log[j].feed = f}

RECURSIVE SumOver(_, _)
\* the sum of op(c) over the calls in cs
SumOver(op(_), cs) ==
  IF cs = {} THEN 0
  ELSE LET c == CHOOSE x \in cs : TRUE IN op(c) + SumOver(op, cs \ {c})

\* C23: if k fetches of a feed fail and none succeeds, its errorCount ends
\* k higher than it started (at 0), also when the fetches overlap.
NoLostErrorCount ==
  (NoneReturned /\ AllDone) =>
    \A f \in Feeds :
      LET attempts(c) == Cardinality(FetchesOf(c, f))
      IN  (\A c \in Calls : \A j \in FetchesOf(c, f) : ~calls[c].log[j].ok)
            => feeds[f].errorCount = SumOver(attempts, Calls)

\* C26: every fetch of a feed that completes, returning or throwing, leaves
\* the feed's lastFetched at the time of that fetch.
LastFetchedAfterEveryAttempt ==
  \A e \in Entries : e.after.lastFetched = e.at

\* C27: when fetches overlap, every row is stored once and the counts the
\* fetches returned add up to the number of rows added to the store; the
\* total of a run is the sum of the counts of its fetches.
CountsAddUp ==
  LET returned(c) == SumReturned(calls[c].log)
  IN  /\ \A r \in Rows : articles[r] = 1
      /\ (NoneReturned /\ AllDone) =>
           SumOver(returned, Calls) = BagCardinality(articles)
      /\ \A c \in Calls :
           (calls[c].kind = "all" /\ calls[c].pc = "done" /\ calls[c].result = "returned")
             => calls[c].totalFetched = returned(c)

\* two fetches of one feed saw the same items while both were in flight;
\* each created one article the other was refused, and a third was refused
\* to both
OverlapSharedTheItems ==
  /\ NoneReturned /\ AllDone
  /\ \A c \in Calls :
       /\ Len(calls[c].log) = 1
       /\ calls[c].log[1].feed = 1
       /\ calls[c].log[1].ok /\ calls[c].log[1].ret = 1
       /\ calls[c].log[1].conflicts = 1
       /\ calls[c].log[1].size = 3
  /\ BagCardinality(articles) = 2

\* C29: no two rows of one feed have the same title, whatever fetches ran
\* and however they overlapped.
TitleUniquePerFeed ==
  \A r \in Rows :
    /\ articles[r] = 1
    /\ \A q \in Rows : (q.feedId = r.feedId /\ q.title = r.title) => q = r

\* C30: a fetch that threw has added no row to the articles table.
FailedFetchAddedNothing ==
  \A e \in Entries : ~e.ok => e.made = 0

\* C25: an error of fetchAllFeeds or of the cleanup in a job's callback is
\* caught and logged there and does not leave the callback; no step of the
\* callback changes the scheduler, so the job that failed and the other job
\* stay armed as they were and fire again.
ScheduledFailureContained ==
  /\ [](\A c \in Calls :
          (calls[c].by = "job" /\ calls[c].pc = "done") =>
            Reaches(calls[c]) \in {"returned", "logged"})
  /\ [][\A c \in Calls :
          (calls[c].by = "job" /\ calls'[c] # calls[c]) =>
            sched' = sched]_vars

\* a job fires again after its callback caught an error the time before
FiredAgainAfterFailure ==
  \E c \in Calls :
    /\ calls[c].by = "job" /\ calls[c].pc \in {"list", "old"}
    /\ calls[c].job # 0 /\ calls[c].caught = calls[c].job
    /\ Cardinality(Armed) = 2

\* the rows the cleanup in slot 1 deleted
Pruned == calls[1].old \cup calls[1].excess

\* the row stored now for the article of the deleted row r
Restored(r) ==
  {q \in Rows : q.feedId = r.feedId /\ q.link = r.link /\ q.guid = r.guid
                /\ q.title = r.title}

\* the fetch in slot 2, begun after the cleanup in slot 1, has completed
Refetched == calls[2].pc = "done" /\ calls[2].result = "returned"

\* the next cleanup with the settings of the one in slot 1 deletes row q,
\* however the rows of equal pubDate are numbered
PrunedAgain(q) ==
  \/ q \in OldArticles(articles, calls[1].days, now)
  \/ \A rn \in RowNumbers(articles) : q \in ExcessArticles(articles, rn, calls[1].cap)

BothParsersFailed ==
  /\ reg.validation.step # "none"
  /\ reg.validation.primary # Empty /\ reg.validation.fallback # Empty

\* one of the two error messages holds an allow-listed signature
SignatureFound ==
  \E a \in allowableErrors :
    Includes(reg.validation.primary, a) \/ Includes(reg.validation.fallback, a)

\* C21: when both parsers fail and an error carries an allow-listed
\* signature, validateFeedUrl returns valid = true with a warning that holds
\* both error messages, and the placeholder title and description.
TransientPassesValidation ==
  (BothParsersFailed /\ SignatureFound) =>
    /\ reg.validation.valid
    /\ Includes(reg.validation.warning, reg.validation.primary)
    /\ Includes(reg.validation.warning, reg.validation.fallback)
    /\ reg.validation.title = UnableToFetch
    /\ reg.validation.description = WillBeUpdated

\* HTTP 429 from both parsers, of which only rss-parser's message is listed
TooManyRequestsFromBoth ==
  /\ reg.pc = "findOne"
  /\ reg.validation.step = "allowed"
  /\ reg.validation.primary = E429.message
  /\ reg.validation.fallback = EAxios429.message

\* C22: when both parsers fail and neither error carries an allow-listed
\* signature, validateFeedUrl returns valid = false with an error that holds
\* both messages, and createFeed does not reach Feed.create: no feed row is
\* stored for the url.
NonTransientFailsValidation ==
  (BothParsersFailed /\ ~SignatureFound) =>
    /\ ~reg.validation.valid
    /\ Includes(reg.validation.error, reg.validation.primary)
    /\ Includes(reg.validation.error, reg.validation.fallback)
    /\ reg.pc \notin {"create", "fetch"}
    /\ reg.outcome \in {"none", "threw", "subscribed"}
    /\ reg.outcome = "threw" => ~reg.rows[reg.url].stored

\* createFeed threw on HTTP 404 and a body that is no feed, no row stored
RegistrationRefused ==
  /\ reg.pc = "done" /\ reg.outcome = "threw"
  /\ reg.validation.primary = E404.message
  /\ reg.validation.fallback = ENotAFeed.message
  /\ ~reg.rows[reg.url].stored

\* C24: Feed.create is aborted by the beforeCreate hook exactly when the
\* hook's validation fails with an error that holds no allow-listed
\* signature; on an allow-listed failure the row is stored, with the
\* placeholders where title and description were not given.
HookAbortsIffNotAllowListed ==
  (reg.pc = "done" /\ reg.hook.ran) =>
    /\ reg.rows[reg.url].stored <=>
         ~(~reg.hook.valid /\ ~IsAllowableText(reg.hook.error))
    /\ (~reg.hook.valid /\ IsAllowableText(reg.hook.error)) =>
         /\ reg.rows[reg.url].title # Empty
         /\ reg.rows[reg.url].description # Empty

=============================================================================
